---- MODULE Spec2Model ----
(***************************************************************************)
(* Operation-graph construction of PhasedOperationPlugin.createOperations: *)
(* the memoized recursive expansion of (phase, project) pairs, the         *)
(* restore / shard / save bracket of sharded phases, the forward           *)
(* propagation of the operationsWithWork set over consumer edges and the   *)
(* final attachment of the skip runner.                                    *)
(*                                                                         *)
(* Operations live in an arena (the sequence `operations`) and are named   *)
(* by their index, in creation order.  One action is one stretch of code   *)
(* between two suspension points (await) of the async functions.           *)
(***************************************************************************)
EXTENDS Integers, Sequences, FiniteSets, TLC

\* ------------------------------------------------------------------ bounds

\* The shard count a sharded rush-project setting carries (N > 1).
NumShards == 2

\* The number of Operations already in the operation set handed to the pass.
NumExisting == 1

\* The deepest nesting of getOrCreateOperations calls that is followed when
\* the dependency data holds a cycle (with data free of cycles the nesting
\* never exceeds the number of pairs).
MaxDepth == 6

\* ------------------------------------------------ external, read-only data

Projects == {"A", "B"}
Phases == {"build", "test"}

\* Iteration order of the external Sets (a JavaScript Set iterates in
\* insertion order): A was inserted before B, build before test.
ProjectOrder == <<"A", "B">>
PhaseOrder == <<"build", "test">>

\* RushConfigurationProject.dependencyProjects: B depends on A.
dependencyProjects == [p \in Projects |-> IF p = "B" THEN {"A"} ELSE {}]

\* `undefined`, as returned by getShards when there is no project
\* configuration or no shard setting for the phase.
Undefined == -1

\* The values the shard-count lookup can answer.
ShardValues == {Undefined, 1, NumShards}

Range(s) == {s[i] : i \in 1..Len(s)}

\* The elements of the set S in the iteration order `order`.
InOrder(S, order) == SelectSeq(order, LAMBDA x : x \in S)

Position(order, x) == CHOOSE i \in 1..Len(order) : order[i] = x

VARIABLES
    context,             \* ICreateOperationsContext: the selections and the changed projects
    phaseDependencies,   \* IPhase.dependencies of every phase: [self, upstream]
    shardSettings,       \* what the rush-project configuration answers per (project, phase)
    operations,          \* the arena of Operation objects
    existingOperations,  \* the operation set given to, and returned by, the pass
    operationsWithWork,  \* Set<Operation>, in insertion order
    allOperations,       \* Map<string, Operation[]>: the memo
    stack,               \* the pending getOrCreateOperations calls, innermost last
    requestIndex,        \* position of the loop of lines 47-51
    visited,             \* the elements of operationsWithWork the loop of line 54 has passed
    seeds,               \* operationsWithWork as it was when construction ended
    expansions,          \* how often the body of `if (!operations)` was entered, per key
    returned,            \* the arrays line 215 has returned, per key, in order
    lookupFailed,        \* the shard-count lookup has thrown
    pc                   \* "construct", "propagate", "done" or "failed"

vars == <<context, phaseDependencies, shardSettings, operations, existingOperations,
          operationsWithWork, allOperations, stack, requestIndex, visited, seeds,
          expansions, returned, lookupFailed, pc>>

inputs == <<context, phaseDependencies, shardSettings>>

\* ------------------------------------------------------------- operations

NoShard == [current |-> 0, max |-> 0]

\* An Operation whose runner was never assigned.
NoRunner == [name |-> "undefined", result |-> "undefined"]

\* new NullOperationRunner({ name: key, result: OperationStatus.Skipped, silent: true })
SkipRunner(key) == [name |-> key, result |-> "Skipped"]

\* The runner objects of lines 103-108 and 114-119.
RestoreRunner == [name |-> "buildCacheRestore", result |-> "Success"]
SaveRunner == [name |-> "buildCacheSave", result |-> "Success"]

\* The runner of an Operation some earlier plugin put into the set.
ExternalRunner == [name |-> "external", result |-> "opaque"]

\* new Operation({ project, phase, shard })
NewOperation(project, phase, shard) ==
    [project |-> project, phase |-> phase, shard |-> shard, runner |-> NoRunner,
     dependencies |-> {}, consumers |-> <<>>]

\* Convert the [IPhase, RushConfigurationProject] into a Map key.
getOperationKey(phase, project) == project \o ";" \o phase

Keys == {getOperationKey(ph, pr) : ph \in Phases, pr \in Projects}

AddDependencyOneWay(os, a, b) == [os EXCEPT ![a].dependencies = @ \cup {b}]

\* Operation.addDependency: a.dependencies.add(b); b.consumers.add(a)
AddDependency(os, a, b) ==
    LET withDep == [os EXCEPT ![a].dependencies = @ \cup {b}]
    IN  [withDep EXCEPT ![b].consumers = IF a \in Range(@) THEN @ ELSE Append(@, a)]

\* list.forEach((operation) => target.addDependency(operation))
RECURSIVE AddDependencies(_, _, _)
AddDependencies(os, target, list) ==
    IF list = <<>> THEN os
    ELSE AddDependencies(AddDependency(os, target, Head(list)), target, Tail(list))

\* for (const target of targets) { resolved.forEach((op) => target.addDependency(op)) }
RECURSIVE WireAll(_, _, _)
WireAll(os, targets, list) ==
    IF targets = <<>> THEN os
    ELSE WireAll(AddDependencies(os, Head(targets), list), Tail(targets), list)

\* existingOperations.add(operation), for each Operation just created.
AddOperationsDropped(existing, created) == existing
AddOperations(existing, created) == existing \cup created

\* Set.prototype.add on an insertion-ordered set.
SetAdd(s, x) == IF x \in Range(s) THEN s ELSE Append(s, x)

RECURSIVE SetAddAll(_, _)
SetAddAll(s, xs) == IF xs = <<>> THEN s ELSE SetAddAll(SetAdd(s, Head(xs)), Tail(xs))

\* ------------------------------------------------------------------ input

\* The Operations already in the set: a chain, each depending on the one before.
ExistingOperation(i) ==
    [project |-> "A", phase |-> "build", shard |-> NoShard, runner |-> ExternalRunner,
     dependencies |-> IF i > 1 THEN {i - 1} ELSE {},
     consumers |-> IF i < NumExisting THEN <<i + 1>> ELSE <<>>]

InputOperations == 1..NumExisting

\* Phase dependency data without a cycle: a phase's self dependencies are
\* earlier phases, its upstream dependencies are phases that are not later
\* (the project graph itself has no cycle).
AcyclicPhaseDependencies ==
    {d \in [Phases -> [self : SUBSET Phases, upstream : SUBSET Phases]] :
        \A ph \in Phases :
            /\ \A s \in d[ph].self : Position(PhaseOrder, s) < Position(PhaseOrder, ph)
            /\ \A u \in d[ph].upstream : Position(PhaseOrder, u) <= Position(PhaseOrder, ph)}

\* The answers of the lookup: a project without a rush-project configuration
\* answers undefined for every phase, one with a configuration answers the
\* shard count it sets for the phase.
ShardSettings ==
    {s \in [Keys -> ShardValues] :
        \A pr \in Projects :
            \/ \A ph \in Phases : s[getOperationKey(ph, pr)] = Undefined
            \/ \A ph \in Phases : s[getOperationKey(ph, pr)] # Undefined}

Contexts ==
    [changedProjects : SUBSET Projects,
     phaseOriginal : (SUBSET Phases) \ {{}},
     phaseSelection : (SUBSET Phases) \ {{}},
     projectSelection : (SUBSET Projects) \ {{}}]

\* The projects the pass can reach: the selected ones and those they depend on.
ReachableProjects(selection) ==
    selection \cup UNION {dependencyProjects[p] : p \in selection}

\* The configuration of a project the pass never reaches is never read: it is
\* left out of the enumeration (taken as absent).
InitWith(dependencyData, shardData) ==
    /\ context \in Contexts
    /\ phaseDependencies \in dependencyData
    /\ shardSettings \in shardData
    /\ \A pr \in Projects \ ReachableProjects(context.projectSelection) :
          \A ph \in Phases : shardSettings[getOperationKey(ph, pr)] = Undefined
    /\ operations = [i \in 1..NumExisting |-> ExistingOperation(i)]
    /\ existingOperations = InputOperations
    /\ operationsWithWork = <<>>
    /\ allOperations = [k \in {} |-> <<>>]
    /\ stack = <<>>
    /\ requestIndex = 1
    /\ visited = {}
    /\ seeds = {}
    /\ expansions = [k \in Keys |-> 0]
    /\ returned = [k \in Keys |-> <<>>]
    /\ lookupFailed = FALSE
    /\ pc = "construct"

Init == InitWith(AcyclicPhaseDependencies, ShardSettings)

\* ----------------------------------------------------- getOrCreateOperations

\* The pairs the loop of lines 47-51 resolves, in its order.
Requests ==
    LET phases == InOrder(context.phaseOriginal, PhaseOrder)
        projects == InOrder(context.projectSelection, ProjectOrder)
    IN  [i \in 1..(Len(phases) * Len(projects)) |->
            [phase |-> phases[((i - 1) \div Len(projects)) + 1],
             project |-> projects[((i - 1) % Len(projects)) + 1]]]

\* allOperations.get(key) is not undefined
MemoHit(key) == key \in DOMAIN allOperations

\* allOperations.set(key, list)
MemoSet(memo, key, list) ==
    [k \in DOMAIN memo \cup {key} |-> IF k = key THEN list ELSE memo[k]]

\* getShards(phase, project, terminal)
getShards(phase, project) == shardSettings[getOperationKey(phase, project)]

\* shards && shards > 1
IsSharded(shards) == shards # Undefined /\ shards # 0 /\ shards > 1

\* !phaseSelection.has(phase) || !projectSelection.has(project)
OutOfScopeBoth(phase, project) ==
    phase \notin context.phaseSelection /\ project \notin context.projectSelection
OutOfScope(phase, project) ==
    phase \notin context.phaseSelection \/ project \notin context.projectSelection

\* The resolutions one expansion makes, in the order of its loops: first the
\* self-dependency phases on the same project, then every upstream-dependency
\* phase on every dependency project.
DependencyCalls(phase, project) ==
    LET self == InOrder(phaseDependencies[phase].self, PhaseOrder)
        upstream == InOrder(phaseDependencies[phase].upstream, PhaseOrder)
        deps == InOrder(dependencyProjects[project], ProjectOrder)
    IN  [i \in 1..Len(self) |-> [phase |-> self[i], project |-> project, edge |-> "self"]]
        \o [i \in 1..(Len(upstream) * Len(deps)) |->
               [phase |-> upstream[((i - 1) \div Len(deps)) + 1],
                project |-> deps[((i - 1) % Len(deps)) + 1],
                edge |-> "upstream"]]

\* A call that missed the memo, suspended at `await getShards(...)`.  Its
\* locals: `operations`, the array of line 85 that line 215 returns;
\* `operation`, the Operation of the unsharded branch; `dependencies` and
\* `dependents`, the arrays of the sharded branch.
NewFrame(phase, project) ==
    [phase |-> phase, project |-> project, stage |-> "lookup", shards |-> Undefined,
     operations |-> <<>>, operation |-> <<>>, dependencies |-> <<>>, dependents |-> <<>>,
     todo |-> <<>>]

Top == stack[Len(stack)]

ReplaceTop(frame) == [stack EXCEPT ![Len(stack)] = frame]

\* The Operations of a call that receive the edges to a resolved list: the
\* Operation of the unsharded branch (lines 197, 205-206); in the sharded
\* branch restore for a self dependency (134-136), save for an upstream one
\* (146-148).
Targets(frame, edge) ==
    IF frame.operation # <<>> THEN frame.operation
    ELSE IF edge = "self" THEN frame.dependencies ELSE frame.dependents

\* Lines 47-51: the next pair of the requested selection is resolved; its
\* result is dropped.
Request ==
    /\ pc = "construct"
    /\ stack = <<>>
    /\ requestIndex <= Len(Requests)
    /\ LET r == Requests[requestIndex]
           key == getOperationKey(r.phase, r.project)
       IN  IF MemoHit(key)
           THEN /\ requestIndex' = requestIndex + 1
                /\ stack' = stack
                /\ returned' = [returned EXCEPT ![key] = Append(@, allOperations[key])]
           ELSE /\ stack' = <<NewFrame(r.phase, r.project)>>
                /\ requestIndex' = requestIndex
                /\ returned' = returned
    /\ UNCHANGED <<inputs, operations, existingOperations, operationsWithWork,
                   allOperations, visited, seeds, expansions, lookupFailed, pc>>

\* The sharded branch with the memo filled before the recursion, as the
\* unsharded branch does.
ExpandShardedMemoFirst(frame, shards) ==
    LET restore == Len(operations) + 1
        save == Len(operations) + 2
        created ==
            operations
            \o <<[NewOperation(frame.project, frame.phase, NoShard)
                     EXCEPT !.runner = RestoreRunner],
                 [NewOperation(frame.project, frame.phase, NoShard)
                     EXCEPT !.runner = SaveRunner]>>
    IN  /\ operations' = created
        /\ operationsWithWork' = SetAdd(SetAdd(operationsWithWork, restore), save)
        /\ existingOperations' = AddOperations(existingOperations, {save, restore})
        /\ allOperations' = MemoSet(allOperations,
                                    getOperationKey(frame.phase, frame.project),
                                    <<restore, save>>)
        /\ stack' = ReplaceTop([frame EXCEPT
                !.stage = "deps", !.shards = shards,
                !.operations = <<restore, save>>,
                !.dependencies = <<restore>>, !.dependents = <<save>>,
                !.todo = DependencyCalls(frame.phase, frame.project)])

\* Lines 88-131: the restore and the save Operation of a sharded pair.
ExpandSharded(frame, shards) ==
    LET restore == Len(operations) + 1
        save == Len(operations) + 2
        created ==
            operations
            \o <<[NewOperation(frame.project, frame.phase, NoShard)
                     EXCEPT !.runner = RestoreRunner],
                 [NewOperation(frame.project, frame.phase, NoShard)
                     EXCEPT !.runner = SaveRunner]>>
    IN  /\ operations' = created
        /\ operationsWithWork' = SetAdd(SetAdd(operationsWithWork, restore), save)
        /\ existingOperations' = AddOperations(existingOperations, {save, restore})
        /\ allOperations' = allOperations
        /\ stack' = ReplaceTop([frame EXCEPT
                !.stage = "deps", !.shards = shards,
                !.operations = <<restore, save>>,
                !.dependencies = <<restore>>, !.dependents = <<save>>,
                !.todo = DependencyCalls(frame.phase, frame.project)])

\* Lines 173-194: the single Operation of an unsharded pair.
ExpandUnsharded(frame, shards) ==
    LET key == getOperationKey(frame.phase, frame.project)
        operation == Len(operations) + 1
        fresh == NewOperation(frame.project, frame.phase, NoShard)
        outOfScope == OutOfScope(frame.phase, frame.project)
    IN  /\ operations' = Append(operations,
                IF outOfScope THEN [fresh EXCEPT !.runner = SkipRunner(key)] ELSE fresh)
        /\ operationsWithWork' =
                IF ~outOfScope /\ frame.project \in context.changedProjects
                THEN SetAdd(operationsWithWork, operation)
                ELSE operationsWithWork
        /\ allOperations' = MemoSet(allOperations, key, <<operation>>)
        /\ existingOperations' = AddOperations(existingOperations, {operation})
        /\ stack' = ReplaceTop([frame EXCEPT
                !.stage = "deps", !.shards = shards,
                !.operations = <<>>, !.operation = <<operation>>,
                !.todo = DependencyCalls(frame.phase, frame.project)])

\* Lines 84-131 and 172-194: the shard-count lookup answers and the pair is
\* expanded in the branch the answer selects.
GetShardsReturns ==
    /\ pc = "construct"
    /\ stack # <<>>
    /\ Top.stage = "lookup"
    /\ LET shards == getShards(Top.phase, Top.project)
       IN  IF IsSharded(shards) THEN ExpandSharded(Top, shards)
                                ELSE ExpandUnsharded(Top, shards)
    /\ expansions' = [expansions EXCEPT ![getOperationKey(Top.phase, Top.project)] = @ + 1]
    /\ UNCHANGED <<inputs, requestIndex, visited, seeds, returned, lookupFailed, pc>>

\* The lookup's failure caught and taken for "not sharded".
GetShardsThrowsSwallowed ==
    /\ pc = "construct"
    /\ stack # <<>>
    /\ Top.stage = "lookup"
    /\ lookupFailed' = TRUE
    /\ ExpandUnsharded(Top, Undefined)
    /\ expansions' = [expansions EXCEPT ![getOperationKey(Top.phase, Top.project)] = @ + 1]
    /\ UNCHANGED <<inputs, requestIndex, visited, seeds, returned, pc>>

\* Line 86 and lines 219-228: the lookup throws; nothing catches it, so every
\* pending call and createOperations itself reject.
GetShardsThrows ==
    /\ pc = "construct"
    /\ stack # <<>>
    /\ Top.stage = "lookup"
    /\ lookupFailed' = TRUE
    /\ pc' = "failed"
    /\ UNCHANGED <<inputs, operations, existingOperations, operationsWithWork,
                   allOperations, stack, requestIndex, visited, seeds, expansions,
                   returned>>

\* Lines 133-154 and 196-211: the next dependency of the pair being expanded
\* is resolved.  On a memo hit the cached list is wired at once; otherwise the
\* call is suspended on the nested call.
ResolveDependency ==
    /\ pc = "construct"
    /\ stack # <<>>
    /\ Top.stage = "deps"
    /\ Top.todo # <<>>
    /\ LET call == Head(Top.todo)
           key == getOperationKey(call.phase, call.project)
       IN  IF MemoHit(key)
           THEN /\ operations' = WireAll(operations, Targets(Top, call.edge),
                                         allOperations[key])
                /\ stack' = ReplaceTop([Top EXCEPT !.todo = Tail(@)])
                /\ returned' = [returned EXCEPT ![key] = Append(@, allOperations[key])]
           ELSE /\ stack' = Append(stack, NewFrame(call.phase, call.project))
                /\ operations' = operations
                /\ returned' = returned
    /\ UNCHANGED <<inputs, existingOperations, operationsWithWork, allOperations,
                   requestIndex, visited, seeds, expansions, lookupFailed, pc>>

\* The shard descriptors of line 156: Array.from({ length: shards }, (_, i) => i + 1)
ShardNumbersFromZero(shards) == [i \in 1..shards |-> i - 1]
ShardNumbersAllOne(shards) == [i \in 1..shards |-> 1]
ShardNumbers(shards) == [i \in 1..shards |-> i]

\* The shard Operations wired to save in both directions (line 165 reading
\* `dependents` for `dependencies`).
RECURSIVE CreateShardsCrossed(_, _, _, _)
CreateShardsCrossed(frame, numbers, os, work) ==
    IF numbers = <<>> THEN [operations |-> os, work |-> work, created |-> <<>>]
    ELSE LET shardOperation == Len(os) + 1
             fresh == NewOperation(frame.project, frame.phase,
                                   [current |-> Head(numbers), max |-> frame.shards])
             afterDependencies ==
                 AddDependencies(Append(os, fresh), shardOperation, frame.dependents)
             wired ==
                 WireAll(afterDependencies, frame.dependents, <<shardOperation>>)
             rest == CreateShardsCrossed(frame, Tail(numbers), wired,
                                         SetAdd(work, shardOperation))
         IN  [rest EXCEPT !.created = <<shardOperation>> \o @]

\* Lines 156-171: the shard Operations of a sharded pair, each wired between
\* restore and save.  Gives the arena, the work set, the new Operations.
RECURSIVE CreateShards(_, _, _, _)
CreateShards(frame, numbers, os, work) ==
    IF numbers = <<>> THEN [operations |-> os, work |-> work, created |-> <<>>]
    ELSE LET shardOperation == Len(os) + 1
             fresh == NewOperation(frame.project, frame.phase,
                                   [current |-> Head(numbers), max |-> frame.shards])
             afterDependencies ==
                 AddDependencies(Append(os, fresh), shardOperation, frame.dependencies)
             wired ==
                 WireAll(afterDependencies, frame.dependents, <<shardOperation>>)
             rest == CreateShards(frame, Tail(numbers), wired,
                                  SetAdd(work, shardOperation))
         IN  [rest EXCEPT !.created = <<shardOperation>> \o @]

\* Lines 156-171 and 215, then the caller's forEach of line 135, 147, 197 or
\* 205: the expansion on top of the stack has resolved all its dependencies;
\* a sharded one creates its shards and only now fills the memo.  Line 215
\* returns the local array `operations`: the sharded branch pushed restore,
\* save and every shard onto it, the unsharded branch stored a new array
\* [operation] in the memo (line 189) and left the local one empty.  The
\* caller wires an edge to every element of the array returned.
Return ==
    /\ pc = "construct"
    /\ stack # <<>>
    /\ Top.stage = "deps"
    /\ Top.todo = <<>>
    /\ LET frame == Top
           key == getOperationKey(frame.phase, frame.project)
           sharded == IsSharded(frame.shards)
           shardsMade == CreateShards(frame, ShardNumbers(frame.shards),
                                      operations, operationsWithWork)
           result == IF sharded THEN frame.operations \o shardsMade.created
                                ELSE frame.operations
           os == IF sharded THEN shardsMade.operations ELSE operations
           callers == SubSeq(stack, 1, Len(stack) - 1)
       IN  /\ returned' = [returned EXCEPT ![key] = Append(@, result)]
           /\ operationsWithWork' =
                  IF sharded THEN shardsMade.work ELSE operationsWithWork
           /\ existingOperations' =
                  IF sharded THEN AddOperations(existingOperations, Range(shardsMade.created))
                             ELSE existingOperations
           /\ allOperations' =
                  IF sharded THEN MemoSet(allOperations, key, result) ELSE allOperations
           /\ IF callers = <<>>
              THEN /\ operations' = os
                   /\ stack' = <<>>
                   /\ requestIndex' = requestIndex + 1
              ELSE LET caller == callers[Len(callers)]
                       call == Head(caller.todo)
                   IN  /\ operations' = WireAll(os, Targets(caller, call.edge), result)
                       /\ stack' = [callers EXCEPT ![Len(callers)].todo = Tail(@)]
                       /\ requestIndex' = requestIndex
    /\ UNCHANGED <<inputs, visited, seeds, expansions, lookupFailed, pc>>

\* ------------------------------------------- propagation and finalization

\* The loop of lines 47-51 has ended and no call is pending.
ConstructionEnded ==
    /\ pc = "construct"
    /\ stack = <<>>
    /\ requestIndex > Len(Requests)

\* Lines 55-57: every consumer of the visited Operation joins the set.
VisitOperation(os, work, operation) == SetAddAll(work, os[operation].consumers)

\* Lines 54-58: a for-of loop over a Set also visits the elements added while
\* it runs, in insertion order, and ends behind the last of them.
RECURSIVE ExpandConsumers(_, _, _)
ExpandConsumers(os, work, i) ==
    IF i > Len(work) THEN work
    ELSE ExpandConsumers(os, VisitOperation(os, work, work[i]), i + 1)

AttachSkipRunnersNever(os, memo, work) == os

\* Finalization over every Operation of the returned set instead of the memo.
AttachSkipRunnersToSet(os, memo, work) ==
    [i \in DOMAIN os |->
        IF i \notin Range(work)
        THEN [os[i] EXCEPT !.runner =
                 SkipRunner(getOperationKey(os[i].phase, os[i].project))]
        ELSE os[i]]

\* Finalization that does not look at the work set.
AttachSkipRunnersAll(os, memo, work) ==
    [i \in DOMAIN os |->
        IF \E key \in DOMAIN memo : i \in Range(memo[key])
        THEN [os[i] EXCEPT !.runner =
                 SkipRunner(CHOOSE key \in DOMAIN memo : i \in Range(memo[key]))]
        ELSE os[i]]

\* Lines 60-72: every Operation of the memo that is not in the work set gets
\* the skip runner, named by its key.
AttachSkipRunners(os, memo, work) ==
    [i \in DOMAIN os |->
        IF \E key \in DOMAIN memo : i \in Range(memo[key]) /\ i \notin Range(work)
        THEN [os[i] EXCEPT !.runner =
                 SkipRunner(CHOOSE key \in DOMAIN memo : i \in Range(memo[key]))]
        ELSE os[i]]

\* Lines 53-74, which hold no suspension point: propagation, finalization and
\* the return of the operation set.
PropagateAndFinalize ==
    /\ ConstructionEnded
    /\ seeds' = Range(operationsWithWork)
    /\ operationsWithWork' = ExpandConsumers(operations, operationsWithWork, 1)
    /\ visited' = Range(operationsWithWork')
    /\ operations' = AttachSkipRunners(operations, allOperations, operationsWithWork')
    /\ pc' = "done"
    /\ UNCHANGED <<inputs, existingOperations, allOperations, stack, requestIndex,
                   expansions, returned, lookupFailed>>

Next ==
    \/ Request
    \/ GetShardsReturns
    \/ GetShardsThrows
    \/ ResolveDependency
    \/ Return
    \/ PropagateAndFinalize

Spec == Init /\ [][Next]_vars

\* ---------------------------- propagation, one visited Operation at a time

\* Line 54: the loop over operationsWithWork has passed every element of the
\* set, those added while it ran included.
PropagationCompleteSnapshot == seeds \subseteq visited
PropagationCompleteAll == DOMAIN operations \subseteq visited
PropagationComplete == Range(operationsWithWork) \subseteq visited

\* Line 53: construction has ended and the propagation loop starts.
BeginPropagation ==
    /\ ConstructionEnded
    /\ seeds' = Range(operationsWithWork)
    /\ pc' = "propagate"
    /\ UNCHANGED <<inputs, operations, existingOperations, operationsWithWork,
                   allOperations, stack, requestIndex, visited, expansions, returned,
                   lookupFailed>>

\* Lines 54-58, one iteration, for an element of the set that was not visited
\* yet, whichever the iteration order offers.
VisitAny ==
    /\ pc = "propagate"
    /\ ~PropagationComplete
    /\ \E operation \in Range(operationsWithWork) \ visited :
          /\ operationsWithWork' =
                 VisitOperation(operations, operationsWithWork, operation)
          /\ visited' = visited \cup {operation}
    /\ UNCHANGED <<inputs, operations, existingOperations, allOperations, stack,
                   requestIndex, seeds, expansions, returned, lookupFailed, pc>>

\* Lines 60-74: the loop is over; the skip runners are attached and the set
\* is returned.
Finalize ==
    /\ pc = "propagate"
    /\ PropagationComplete
    /\ operations' = AttachSkipRunners(operations, allOperations, operationsWithWork)
    /\ pc' = "done"
    /\ UNCHANGED <<inputs, existingOperations, operationsWithWork, allOperations,
                   stack, requestIndex, visited, seeds, expansions, returned,
                   lookupFailed>>

\* The inputs of the runs that explore every visiting order: every phase is
\* in scope and at most one pair has a shard setting.
InitOrder ==
    /\ InitWith(AcyclicPhaseDependencies, [Keys -> ShardValues])
    /\ context.phaseSelection = Phases
    /\ \E sharded \in Keys : \A k \in Keys \ {sharded} : shardSettings[k] = Undefined

NextOrder ==
    \/ Request
    \/ GetShardsReturns
    \/ GetShardsThrows
    \/ ResolveDependency
    \/ Return
    \/ BeginPropagation
    \/ VisitAny
    \/ Finalize

SpecOrder == InitOrder /\ [][NextOrder]_vars

\* --------------------------------------- a lookup that always answers

\* Lines 54-58, one iteration in the order of the for-of loop: the first
\* element of the set, in insertion order, that was not visited yet.
VisitNext ==
    /\ pc = "propagate"
    /\ ~PropagationComplete
    /\ \E i \in 1..Len(operationsWithWork) :
          /\ operationsWithWork[i] \notin visited
          /\ \A j \in 1..(i - 1) : operationsWithWork[j] \in visited
          /\ operationsWithWork' =
                 VisitOperation(operations, operationsWithWork, operationsWithWork[i])
          /\ visited' = visited \cup {operationsWithWork[i]}
    /\ UNCHANGED <<inputs, operations, existingOperations, allOperations, stack,
                   requestIndex, seeds, expansions, returned, lookupFailed, pc>>

\* The steps of a pass whose shard-count lookup never throws.
NextLive ==
    \/ Request
    \/ GetShardsReturns
    \/ ResolveDependency
    \/ Return
    \/ BeginPropagation
    \/ VisitNext
    \/ Finalize

\* The event loop runs a continuation once the promise it awaits is settled,
\* and synchronous code runs on: a step that can be taken is taken.
SpecLive == InitOrder /\ [][NextLive]_vars /\ WF_vars(NextLive)

\* ------------------------------------------- dependency data with a cycle

\* Phase dependency data whose self dependencies hold a cycle: a phase that
\* names itself, or two phases that name each other.  (The project graph has
\* no cycle, so no cycle among pairs passes through an upstream dependency.)
\* A phase's upstream dependency, if it has one, is the phase itself.
CyclicPhaseDependencies ==
    {d \in [Phases -> [self : SUBSET Phases, upstream : SUBSET Phases]] :
        /\ \A ph \in Phases : d[ph].upstream \subseteq {ph}
        /\ \/ \E ph \in Phases : ph \in d[ph].self
           \/ \A ph \in Phases : d[ph].self \ {ph} # {}}

\* The inputs of the runs with cyclic data: every phase is in scope.
InitCycle ==
    /\ InitWith(CyclicPhaseDependencies, ShardSettings)
    /\ context.phaseSelection = Phases
    /\ context.changedProjects \in {{}, Projects}

\* Lines 133-154 and 196-211, followed down to MaxDepth nested calls.
ResolveDependencyWithin ==
    /\ stack # <<>>
    /\ Top.stage = "deps"
    /\ Top.todo # <<>>
    /\ \/ MemoHit(getOperationKey(Head(Top.todo).phase, Head(Top.todo).project))
       \/ Len(stack) < MaxDepth
    /\ ResolveDependency

NextCycle ==
    \/ Request
    \/ GetShardsReturns
    \/ GetShardsThrows
    \/ ResolveDependencyWithin
    \/ Return
    \/ PropagateAndFinalize

SpecCycle == InitCycle /\ [][NextCycle]_vars

\* ================================================================ properties

\* The Operations the pass created.
Created == DOMAIN operations \ InputOperations

KeyOf(operation) == getOperationKey(operations[operation].phase, operations[operation].project)

Consumers(operation) == Range(operations[operation].consumers)

\* The Operations of the memo lists.
Memoized == UNION {Range(allOperations[k]) : k \in DOMAIN allOperations}

\* The keys the memo holds a one-element list for, and their Operations.
UnshardedKeys == {k \in DOMAIN allOperations : Len(allOperations[k]) = 1}
ShardedKeys == DOMAIN allOperations \ UnshardedKeys
UnshardedOperations == {allOperations[k][1] : k \in UnshardedKeys}

\* In scope: the phase is in the phase selection and the project in the
\* project selection.
InScopeOperation(operation) ==
    /\ operations[operation].phase \in context.phaseSelection
    /\ operations[operation].project \in context.projectSelection

WorkSet == Range(operationsWithWork)

\* The least set that holds S and every consumer of its elements.
RECURSIVE ForwardClosure(_)
ForwardClosure(S) ==
    LET next == S \cup UNION {Consumers(o) : o \in S}
    IN  IF next = S THEN S ELSE ForwardClosure(next)

\* C1: when the propagation loop has ended, whatever the order in which it
\* visited the set, operationsWithWork is exactly the forward closure of the
\* set construction left behind over the consumer edges: it holds every seed,
\* it is closed under consumers and it holds nothing a seed does not reach.
\* While the loop runs the set stays between the seeds and that closure.
C1_PropagationIsForwardClosure ==
    /\ pc = "propagate" =>
          /\ seeds \subseteq WorkSet
          /\ WorkSet \subseteq ForwardClosure(seeds)
          /\ visited \subseteq WorkSet
    /\ pc = "done" =>
          /\ seeds \subseteq WorkSet
          /\ \A o \in WorkSet : Consumers(o) \subseteq WorkSet
          /\ WorkSet = ForwardClosure(seeds)

\* A chain seed <- b <- c was closed: c is in the final set though it is no
\* seed and no direct consumer of a seed.
C1_Witness ==
    /\ pc = "done"
    /\ \E c \in WorkSet \ seeds :
          /\ \A a \in seeds : c \notin Consumers(a)
          /\ \E b \in WorkSet \ seeds : c \in Consumers(b)

PairOf(operation) ==
    [phase |-> operations[operation].phase, project |-> operations[operation].project]

\* The pairs the given pairs depend on in the phase and project data, through
\* self and upstream dependencies, directly or through other pairs.
RECURSIVE PairClosure(_)
PairClosure(S) ==
    LET next == S \cup {[phase |-> c.phase, project |-> c.project] :
                           c \in UNION {Range(DependencyCalls(p.phase, p.project)) : p \in S}}
    IN  IF next = S THEN S ELSE PairClosure(next)

\* C2: at return, an in-scope unsharded Operation has the skip runner exactly
\* when it is not in operationsWithWork; and an in-scope unsharded Operation
\* of an unchanged project whose pair depends, directly or through other
\* pairs along self and upstream dependencies, on the pair of an in-scope
\* Operation of a changed project is in the set and has no skip runner.
C2_ConsumersOfChangedHaveWork ==
    pc = "done" =>
        \A o \in UnshardedOperations :
            InScopeOperation(o) =>
                /\ (operations[o].runner.result = "Skipped") <=> (o \notin WorkSet)
                /\ ( /\ operations[o].project \notin context.changedProjects
                     /\ \E d \in Created :
                           /\ InScopeOperation(d)
                           /\ operations[d].project \in context.changedProjects
                           /\ PairOf(d) \in PairClosure({PairOf(o)}) )
                    => (o \in WorkSet /\ operations[o].runner.result # "Skipped")

\* C3 as stated: at return every created Operation of an out-of-scope pair,
\* sharded or not, has the skip runner.
C3_OutOfScopeAlwaysSkipped ==
    pc = "done" =>
        \A o \in Created :
            ~InScopeOperation(o) => operations[o].runner.result = "Skipped"

\* C3, amended: from its creation to the return of the pass, every unsharded
\* Operation of an out-of-scope pair has the skip runner, whether or not its
\* project is changed and whether or not propagation put it into
\* operationsWithWork.
C3_UnshardedOutOfScopeSkipped ==
    \A o \in UnshardedOperations :
        ~InScopeOperation(o) => operations[o].runner = SkipRunner(KeyOf(o))

\* An out-of-scope unsharded Operation of a changed project that propagation
\* put into operationsWithWork was returned.
C3_Witness ==
    /\ pc = "done"
    /\ \E o \in UnshardedOperations :
          /\ ~InScopeOperation(o)
          /\ operations[o].project \in context.changedProjects
          /\ o \in WorkSet

\* C4: the list the memo holds for a pair, which is all the Operations the
\* pass creates for the pair, has exactly one Operation (without shard
\* descriptor) when the shard count is undefined or <= 1, and exactly N + 2
\* when it is N > 1: restore and save, without descriptor, and N shard
\* Operations with the descriptors {current: i, max: N}, every i of 1..N
\* exactly once.
C4_ResolvedListShape ==
    \A k \in DOMAIN allOperations :
        LET list == allOperations[k]
            n == shardSettings[k]
        IN  /\ \A i \in 1..Len(list) : list[i] \in Created /\ KeyOf(list[i]) = k
            /\ {o \in Created : KeyOf(o) = k} = Range(list)
            /\ \A i, j \in 1..Len(list) : list[i] = list[j] => i = j
            /\ IF n = Undefined \/ n <= 1
               THEN /\ Len(list) = 1
                    /\ operations[list[1]].shard = NoShard
               ELSE /\ Len(list) = n + 2
                    /\ Cardinality({i \in 1..Len(list) :
                                       operations[list[i]].shard = NoShard}) = 2
                    /\ \E i, j \in 1..Len(list) :
                          /\ operations[list[i]].shard = NoShard
                          /\ operations[list[i]].runner.name = "buildCacheRestore"
                          /\ operations[list[j]].shard = NoShard
                          /\ operations[list[j]].runner.name = "buildCacheSave"
                    /\ \A c \in 1..n :
                          Cardinality({i \in 1..Len(list) :
                              operations[list[i]].shard = [current |-> c, max |-> n]}) = 1

\* The memo holds a sharded pair, a pair whose count is 1 and a pair without
\* a count.
C4_Witness ==
    /\ \E k \in DOMAIN allOperations : shardSettings[k] = NumShards
    /\ \E k \in DOMAIN allOperations : shardSettings[k] = 1
    /\ \E k \in DOMAIN allOperations : shardSettings[k] = Undefined

\* A key's expansion is pending: a call for it is on the stack.
FramesOf(key) ==
    {i \in 1..Len(stack) : getOperationKey(stack[i].phase, stack[i].project) = key}

\* Every created Operation belongs to the one expansion of its key: to the
\* memo list of the key or, while a sharded expansion is still running, to
\* the local list of the single pending call for the key.
OneSetPerKey ==
    /\ \A k \in Keys : Cardinality(FramesOf(k)) <= 1
    /\ \A o \in Created :
          IF KeyOf(o) \in DOMAIN allOperations
          THEN o \in Range(allOperations[KeyOf(o)])
          ELSE \E i \in FramesOf(KeyOf(o)) : o \in Range(stack[i].operations)

\* C5: with dependency data that holds no cycle, no key's expansion is
\* entered twice, no Operation is created for a key outside that one
\* expansion, and every resolution of a key returns the same Operations as
\* the first resolution of the key did.
C5_SameOperationsEveryResolution ==
    /\ \A k \in Keys : expansions[k] <= 1
    /\ OneSetPerKey
    /\ \A k \in Keys : \A i \in 1..Len(returned[k]) : returned[k][i] = returned[k][1]

ResolvedSet(phase, project) == Range(allOperations[getOperationKey(phase, project)])

\* C6: at return, for every sharded pair with count N: restore depends on
\* exactly the resolved lists of (self-dependency phase, same project); save
\* on exactly the resolved lists of (upstream-dependency phase, dependency
\* project) and the N shard Operations; every shard Operation on exactly
\* restore.
C6_ShardedWiring ==
    pc = "done" =>
        \A k \in DOMAIN allOperations :
            shardSettings[k] # Undefined /\ shardSettings[k] > 1 =>
                LET list == Range(allOperations[k])
                    restore == CHOOSE o \in list : operations[o].runner = RestoreRunner
                    save == CHOOSE o \in list : operations[o].runner = SaveRunner
                    shardOperations == {o \in list : operations[o].shard # NoShard}
                    phase == operations[restore].phase
                    project == operations[restore].project
                IN  /\ restore # save
                    /\ Cardinality(shardOperations) = shardSettings[k]
                    /\ operations[restore].dependencies =
                          UNION {ResolvedSet(s, project) :
                                    s \in phaseDependencies[phase].self}
                    /\ operations[save].dependencies =
                          shardOperations \cup
                          UNION {ResolvedSet(u, d) :
                                    u \in phaseDependencies[phase].upstream,
                                    d \in dependencyProjects[project]}
                    /\ \A sh \in shardOperations :
                          operations[sh].dependencies = {restore}

\* C7: in every state, B is in A's dependency set exactly when A is in B's
\* consumer set, no consumer is recorded twice, and adding an edge that
\* exists changes neither set.
C7_DependenciesInverseOfConsumers ==
    /\ \A a \in DOMAIN operations : \A b \in operations[a].dependencies :
          /\ b \in DOMAIN operations
          /\ a \in Consumers(b)
          /\ AddDependency(operations, a, b) = operations
    /\ \A b \in DOMAIN operations :
          /\ Cardinality(Consumers(b)) = Len(operations[b].consumers)
          /\ \A a \in Consumers(b) :
                a \in DOMAIN operations /\ b \in operations[a].dependencies

\* An Operation that has both a dependency and a consumer among the created
\* Operations.
C7_Witness ==
    \E a, b, c \in Created :
        b \in operations[a].dependencies /\ c \in operations[b].dependencies

\* C8 as stated: at return every created Operation has a runner.
C8_EveryOperationHasRunner ==
    pc = "done" => \A o \in Created : operations[o].runner # NoRunner

\* C8, amended: at return a created Operation is without a runner exactly
\* when it is in operationsWithWork and is an in-scope unsharded Operation or
\* a shard Operation; every Operation outside operationsWithWork, every
\* out-of-scope unsharded Operation and every restore and save Operation has
\* a runner.
C8_RunnerUnlessInScopeWork ==
    pc = "done" =>
        \A o \in Created :
            (operations[o].runner = NoRunner) <=>
                /\ o \in WorkSet
                /\ \/ o \in UnshardedOperations /\ InScopeOperation(o)
                   \/ operations[o].shard # NoShard

\* The pass returned an in-scope unsharded Operation with work and a shard
\* Operation, both without runner, next to an Operation it gave the skip
\* runner at finalization.
C8_Witness ==
    /\ pc = "done"
    /\ \E o \in UnshardedOperations :
          InScopeOperation(o) /\ o \in WorkSet /\ operations[o].runner = NoRunner
    /\ \E o \in Created :
          operations[o].shard # NoShard /\ operations[o].runner = NoRunner
    /\ \E o \in UnshardedOperations :
          InScopeOperation(o) /\ operations[o].runner.result = "Skipped"

\* C9: the operation set never loses an element, it holds the input set in
\* every state, and at return it holds every Operation of the memo and every
\* Operation the pass created.
C9_OperationSetOnlyGrows ==
    [][ /\ existingOperations \subseteq existingOperations'
        /\ InputOperations \subseteq existingOperations'
        /\ pc' = "done" =>
              /\ Memoized' \subseteq existingOperations'
              /\ Created' \subseteq existingOperations' ]_vars

\* The set returned holds the input Operation, an unsharded Operation and
\* the Operations of a sharded pair.
C9_Witness ==
    /\ pc = "done"
    /\ InputOperations # {}
    /\ UnshardedKeys # {}
    /\ ShardedKeys # {}
    /\ InputOperations \cup Memoized \subseteq existingOperations

\* C10: once the shard-count lookup has thrown, the pass is failed and
\* nothing more happens: no set is returned, no pair is expanded, neither
\* propagation nor finalization has run or will run.
C10_LookupFailureFailsPass ==
    /\ lookupFailed =>
          /\ pc = "failed"
          /\ ~ENABLED Next
          /\ seeds = {} /\ visited = {}
          /\ \A o \in Created : operations[o].runner.result = "Skipped" =>
                ~InScopeOperation(o)
    /\ pc = "failed" => lookupFailed

\* The lookup threw inside a nested call, with Operations already created
\* and added to the set and requested pairs still to come.
C10_Witness ==
    /\ lookupFailed
    /\ Len(stack) >= 2
    /\ Created # {}
    /\ Created \subseteq existingOperations
    /\ requestIndex < Len(Requests)

\* The pairs a pair resolves directly.
Successors(pair) ==
    {[phase |-> c.phase, project |-> c.project] :
        c \in Range(DependencyCalls(pair.phase, pair.project))}

\* The pairs of lines 47-51 and every pair they reach.
RequestedPairs == {[phase |-> r.phase, project |-> r.project] : r \in Range(Requests)}
ReachablePairs == PairClosure(RequestedPairs)

\* The pairs the lookup answers a count above 1 for.
ShardedPairs ==
    {pair \in [phase : Phases, project : Projects] :
        IsSharded(getShards(pair.phase, pair.project))}

\* The pairs of S that T reaches along dependencies without leaving S.
RECURSIVE ClosureWithin(_, _)
ClosureWithin(T, S) ==
    LET next == T \cup (S \cap UNION {Successors(pair) : pair \in T})
    IN  IF next = T THEN T ELSE ClosureWithin(next, S)

\* The dependency data holds a cycle all of whose pairs are in S.
HasCycle(S) ==
    \E pair \in S : pair \in ClosureWithin(S \cap Successors(pair), S)

C12_SecondResolutionSharesOperations ==
    \A k \in Keys :
        /\ Cardinality(FramesOf(k)) <= 1
        /\ expansions[k] <= 1
        /\ Cardinality({o \in Created : KeyOf(o) = k /\ operations[o].shard = NoShard})
              <= (IF IsSharded(shardSettings[k]) THEN 2 ELSE 1)

\* C13: at return the dependency set of every unsharded Operation is exactly
\* the union of the full resolved lists of (self-dependency phase, same
\* project) and of (upstream-dependency phase, dependency project): for a
\* sharded dependency restore, save and every shard Operation, and no other
\* Operation.
C13_UnshardedWiringComplete ==
    pc = "done" =>
        \A o \in UnshardedOperations :
            operations[o].dependencies =
                UNION {ResolvedSet(s, operations[o].project) :
                          s \in phaseDependencies[operations[o].phase].self}
                \cup UNION {ResolvedSet(u, d) :
                          u \in phaseDependencies[operations[o].phase].upstream,
                          d \in dependencyProjects[operations[o].project]}

\* The Operations created for the pairs the lookup answers a count above 1
\* for: restore, save and shard Operations.
BoundaryOperations == {o \in Created : IsSharded(shardSettings[KeyOf(o)])}

\* C14: from its creation to the return of the pass, every restore, save and
\* shard Operation of a sharded pair is in operationsWithWork and has no
\* skip runner, and restore and save keep the runner that yields Success;
\* whatever the changed projects and the selections are.
C14_BoundaryNodesAlwaysRun ==
    \A o \in BoundaryOperations :
        /\ o \in WorkSet
        /\ operations[o].runner.result # "Skipped"
        /\ IF operations[o].shard = NoShard
           THEN operations[o].runner \in {RestoreRunner, SaveRunner}
           ELSE operations[o].runner = NoRunner

\* The pass returned the restore, save and shard Operations of a sharded
\* pair that is out of scope and whose project is not changed, and gave an
\* unsharded Operation the skip runner at finalization.
C14_Witness ==
    /\ pc = "done"
    /\ \E k \in ShardedKeys :
          /\ \E o \in Range(allOperations[k]) : operations[o].shard # NoShard
          /\ \E o \in Range(allOperations[k]) : operations[o].runner = RestoreRunner
          /\ \E o \in Range(allOperations[k]) : operations[o].runner = SaveRunner
          /\ \A o \in Range(allOperations[k]) :
                /\ ~InScopeOperation(o)
                /\ operations[o].project \notin context.changedProjects
    /\ \E o \in UnshardedOperations :
          InScopeOperation(o) /\ operations[o].runner.result = "Skipped"

\* operationsWithWork as construction leaves it: the set itself while
\* construction runs, the seeds once propagation has started.
ConstructionWorkSet == IF pc \in {"construct", "failed"} THEN WorkSet ELSE seeds

\* C15: an unsharded Operation is put into operationsWithWork by
\* construction exactly when its pair is in scope and its project is
\* changed; an out-of-scope one never is, so when every changed project is
\* outside the project selection and no pair is sharded, the pass returns
\* with an empty set.
C15_ScopePreemptsChangeWhenSeeding ==
    /\ \A o \in UnshardedOperations :
          (o \in ConstructionWorkSet) <=>
              /\ InScopeOperation(o)
              /\ operations[o].project \in context.changedProjects
    /\ ( /\ pc = "done"
         /\ context.changedProjects \cap context.projectSelection = {}
         /\ BoundaryOperations = {} )
       => WorkSet = {}

\* The pass returned an out-of-scope unsharded Operation of a changed project
\* that is no seed and whose consumer was left without work, next to an
\* in-scope Operation of a changed project that is a seed.
C15_Witness ==
    /\ pc = "done"
    /\ \E o \in UnshardedOperations :
          /\ ~InScopeOperation(o)
          /\ operations[o].project \in context.changedProjects
          /\ o \notin seeds
          /\ \E c \in Consumers(o) : c \notin WorkSet
    /\ \E o \in UnshardedOperations :
          /\ InScopeOperation(o)
          /\ operations[o].project \in context.changedProjects
          /\ o \in seeds

\* C16: with dependency data free of cycles and a lookup that always
\* answers, the pass returns: every requested pair's expansion completes,
\* the propagation loop stops and finalization runs (pc is "done" only
\* after all three).
C16_PassEventuallyReturns == <>(pc = "done" /\ stack = <<>> /\ WorkSet \subseteq visited)

\* The pass returned after a recursion three calls deep and a propagation
\* that added Operations to the set while it iterated.
C16_Witness ==
    /\ pc = "done"
    /\ WorkSet \ seeds # {}
    /\ \E a, b, c \in Keys :
          /\ a # b /\ b # c /\ a # c
          /\ returned[a] # <<>> /\ returned[a][1] = <<>>
          /\ returned[b] # <<>> /\ returned[b][1] = <<>>
          /\ returned[c] # <<>>

\* What is left of S after taking away, again and again, every Operation
\* none of whose dependencies is in what is left: empty exactly when the
\* dependency relation on S has no cycle.
RECURSIVE OnCycles(_)
OnCycles(S) ==
    LET free == {o \in S : operations[o].dependencies \cap S = {}}
    IN  IF free = {} THEN S ELSE OnCycles(S \ free)

\* C17: with dependency data free of cycles, in every state no Operation
\* depends on itself and the dependency relation over all Operations has no
\* cycle, the edges inside a sharded pair's bracket and the edges of its
\* consumers to restore, save and every shard included.
C17_DependencyRelationAcyclic ==
    /\ \A o \in DOMAIN operations : o \notin operations[o].dependencies
    /\ OnCycles(DOMAIN operations) = {}

\* Two sharded pairs have been wired: the restore Operation of one depends
\* on an Operation of another pair, and the save Operation of the other
\* depends on restore, save and a shard Operation of the first.
C17_Witness ==
    \E k1, k2 \in ShardedKeys :
        /\ k1 # k2
        /\ \E r \in Range(allOperations[k1]) :
              /\ operations[r].runner = RestoreRunner
              /\ operations[r].dependencies # {}
        /\ \E sv \in Range(allOperations[k2]) :
              /\ operations[sv].runner = SaveRunner
              /\ Range(allOperations[k1]) \subseteq operations[sv].dependencies

\* identity = (Project, Phase, optional shard descriptor)
Identity(operation) ==
    <<operations[operation].project, operations[operation].phase,
      operations[operation].shard>>

\* C18 as stated: no two distinct Operations the pass created have the same
\* project, phase and shard descriptor, the case of no descriptor included.
C18_IdentityUnique ==
    \A a, b \in Created : Identity(a) = Identity(b) => a = b

\* C18, amended: with dependency data free of cycles, two distinct
\* Operations the pass created have the same project, phase and shard
\* descriptor only when they are the restore and the save Operation of one
\* sharded pair; shard Operations and unsharded Operations are identified
\* uniquely.
C18_IdentityUniqueButRestoreSave ==
    \A a, b \in Created :
        (Identity(a) = Identity(b) /\ a # b) =>
            /\ operations[a].shard = NoShard
            /\ IsSharded(shardSettings[KeyOf(a)])
            /\ {operations[a].runner, operations[b].runner} = {RestoreRunner, SaveRunner}

\* The pass returned an unsharded Operation and the restore, save and shard
\* Operations of a sharded pair, restore and save with one identity.
C18_Witness ==
    /\ pc = "done"
    /\ UnshardedKeys # {}
    /\ \E k \in ShardedKeys :
          /\ Cardinality({o \in Range(allOperations[k]) :
                              operations[o].shard # NoShard}) = NumShards
          /\ \E a, b \in Range(allOperations[k]) :
                a # b /\ Identity(a) = Identity(b)

\* C19: in every state, every Operation of the input set has the runner,
\* the dependency set and the consumer set it came with, is not in
\* operationsWithWork and not in the memo, and no Operation the pass created
\* has an edge to or from it.
C19_InputOperationsUntouched ==
    /\ \A i \in InputOperations :
          /\ operations[i] = ExistingOperation(i)
          /\ i \notin WorkSet
          /\ i \notin Memoized
          /\ i \in existingOperations
    /\ \A o \in Created :
          /\ operations[o].dependencies \cap InputOperations = {}
          /\ Consumers(o) \cap InputOperations = {}

\* The pass returned after creating its own Operation for the pair of an
\* input Operation, wiring a consumer to it, propagating work and attaching
\* a skip runner.
C19_Witness ==
    /\ pc = "done"
    /\ \E i \in InputOperations : \E o \in Created :
          /\ operations[o].project = operations[i].project
          /\ operations[o].phase = operations[i].phase
          /\ operations[o].shard = operations[i].shard
          /\ Consumers(o) # {}
    /\ WorkSet \ seeds # {}
    /\ \E o \in Created : operations[o].runner.result = "Skipped"

====
